---- MODULE Spec2Model ----
(***************************************************************************)
(* Patience sort of src/patience_sort.h: the distribution pass over the    *)
(* pile collection (Installer), the write-back and the merge tournament of *)
(* the contiguous deck (ContiniousDeck), the list decks (SparceDeck,       *)
(* SparseDeckRandomOut) and the three entry points patience_sort_cont,     *)
(* patience_sort_list and patience_sort(list).                             *)
(*                                                                         *)
(* Positions are offsets as in the C++ code: the pile at offset k of the   *)
(* deque is storage[k + 1], the slot at offset k of the caller's range is  *)
(* data[k + 1], and an "end" iterator is the offset one past the last.     *)
(***************************************************************************)
EXTENDS Integers, Sequences, FiniteSets, TLC

\* Bounds of the model.
MaxLen == 4
MaxVal == 3
AnyLen == 3
AnyVal == 2

VARIABLES
    variant,   \* the entry point called
    cmp,       \* the comparator handed to the entry point
    orig,      \* the caller's sequence when the call started
    data,      \* the caller's storage: [begin, end) or the list
    it,        \* offset of the iterator of the distribution loop
    storage,   \* the pile collection (deque of piles)
    points,    \* ContiniousDeck::points, ranges as <<first, second>>
    pc,        \* position in the call
    oob,       \* an element that does not exist has been read
    pass       \* 1 in the first call, 2 when the caller sorts the result again

vars == <<variant, cmp, orig, data, it, storage, points, pc, oob, pass>>

Variants == {"patience_sort_cont", "patience_sort_list", "patience_sort"}

\* The test's example and the two scenario inputs.
Example == <<1, 5, 1, 5, 12, 4, 104, 15, 2, 8>>
Descending == <<5, 4, 3, 2, 1>>
Ascending == <<1, 2, 3, 4, 5>>

SeqsUpTo(n, S) == UNION {[1..k -> S] : k \in 0..n}

Inputs == SeqsUpTo(MaxLen, 1..MaxVal) \cup {Example, Descending, Ascending}

\* An element is a value together with the identity of the object (node)
\* that holds it; comparators look at the value only.
Tag(s) == [i \in 1..Len(s) |-> [val |-> s[i], id |-> i]]

Vals(s) == [i \in 1..Len(s) |-> s[i].val]

\* ------------------------------------------------------------------------
\* Comparators.

\* Comparing strings by their length: several values share one key.
Key(v) == (v + 1) \div 2

default_compare(lhs, rhs) == lhs < rhs

\* The comparator of the call dropped on the way: always the natural order.
Less_default(a, b) == default_compare(a.val, b.val)

\* The comparator called with its operands exchanged.
Less_flipped(a, b) ==
    CASE cmp.kind = "default" -> default_compare(b.val, a.val)
      [] cmp.kind = "greater" -> a.val < b.val
      [] cmp.kind = "bykey"   -> Key(b.val) < Key(a.val)
      [] cmp.kind = "rel"     -> <<b.val, a.val>> \in cmp.rel

\* cmp(a, b) for the comparator of the call.
Less(a, b) ==
    CASE cmp.kind = "default" -> default_compare(a.val, b.val)
      [] cmp.kind = "greater" -> b.val < a.val
      [] cmp.kind = "bykey"   -> Key(a.val) < Key(b.val)
      [] cmp.kind = "rel"     -> <<a.val, b.val>> \in cmp.rel

Orders == {[kind |-> k, rel |-> {}] : k \in {"default", "greater", "bykey"}}

Predicates == {[kind |-> "rel", rel |-> r] : r \in SUBSET ((1..AnyVal) \X (1..AnyVal))}

\* ------------------------------------------------------------------------
\* Installer.

Back(deck) == deck[Len(deck)]

\* The search with the two halves the wrong way round.
RECURSIVE find_deck_swapped(_, _, _)
find_deck_swapped(val, begin, end) ==
    IF end = begin
    THEN begin
    ELSE IF end = begin + 1
    THEN IF Less(Back(storage[begin + 1]), val) THEN begin ELSE end
    ELSE LET mid == begin + ((end - begin) \div 2)
         IN  IF Less(Back(storage[mid + 1]), val)
             THEN find_deck_swapped(val, mid, end)
             ELSE find_deck_swapped(val, begin, mid)

\* The search that stops at the middle pile without looking at the left half.
RECURSIVE find_deck_no_left(_, _, _)
find_deck_no_left(val, begin, end) ==
    IF end = begin
    THEN begin
    ELSE IF end = begin + 1
    THEN IF Less(Back(storage[begin + 1]), val) THEN begin ELSE end
    ELSE LET mid == begin + ((end - begin) \div 2)
         IN  IF Less(Back(storage[mid + 1]), val)
             THEN mid
             ELSE find_deck_no_left(val, mid, end)

\* The search that lets an element extend a pile whose last element is
\* not greater (!cmp(val, back) in place of cmp(back, val)).
RECURSIVE find_deck_ties(_, _, _)
find_deck_ties(val, begin, end) ==
    IF end = begin
    THEN begin
    ELSE IF end = begin + 1
    THEN IF ~Less(val, Back(storage[begin + 1])) THEN begin ELSE end
    ELSE LET mid == begin + ((end - begin) \div 2)
         IN  IF ~Less(val, Back(storage[mid + 1]))
             THEN find_deck_ties(val, begin, mid)
             ELSE find_deck_ties(val, mid, end)

\* The search that returns the qualifying pile of the highest index.
find_deck_rightmost(val, begin, end) ==
    LET q == {k \in begin..(end - 1) : Less(Back(storage[k + 1]), val)}
    IN  IF q = {} THEN end ELSE CHOOSE k \in q : \A j \in q : j <= k

RECURSIVE find_deck(_, _, _)
find_deck(val, begin, end) ==
    IF end = begin
    THEN begin
    ELSE IF end = begin + 1
    THEN IF Less(Back(storage[begin + 1]), val) THEN begin ELSE end
    ELSE LET mid == begin + ((end - begin) \div 2)
         IN  IF Less(Back(storage[mid + 1]), val)
             THEN find_deck(val, begin, mid)
             ELSE find_deck(val, mid, end)

\* The resize that adds two piles.
allocate_new_deck_twice == Append(Append(storage, <<>>), <<>>)

\* The pile collection after storage.resize(storage.size() + 1).
allocate_new_deck == Append(storage, <<>>)

\* The result of the search compared with storage.begin().
get_deck_pointer_begin(val) ==
    LET res == find_deck(val, 0, Len(storage))
    IN  IF res # 0
        THEN [decks |-> storage, at |-> res]
        ELSE [decks |-> allocate_new_deck, at |-> Len(allocate_new_deck) - 1]

\* The pile collection and the offset of the pile the iterator points to.
get_deck_pointer(val) ==
    LET res == find_deck(val, 0, Len(storage))
    IN  IF res # Len(storage)
        THEN [decks |-> storage, at |-> res]
        ELSE [decks |-> allocate_new_deck, at |-> Len(allocate_new_deck) - 1]

\* The element put at the front of the pile.
emplace_back_front(val) ==
    LET p == get_deck_pointer(val)
    IN  [p.decks EXCEPT ![p.at + 1] = <<val>> \o @]

\* get_deck_pointer(val)->emplace_back(val), or the splice of val's node.
emplace_back(val) ==
    LET p == get_deck_pointer(val)
    IN  [p.decks EXCEPT ![p.at + 1] = Append(@, val)]

\* ------------------------------------------------------------------------
\* Merging.

\* The merge with the test the wrong way round.
RECURSIVE merge_swapped(_, _)
merge_swapped(l, r) ==
    IF l = <<>> THEN r
    ELSE IF r = <<>> THEN l
    ELSE IF Less(Head(l), Head(r))
         THEN <<Head(r)>> \o merge_swapped(l, Tail(r))
         ELSE <<Head(l)>> \o merge_swapped(Tail(l), r)

\* The merge that takes from the right run on a tie.
RECURSIVE merge_unstable(_, _)
merge_unstable(l, r) ==
    IF l = <<>> THEN r
    ELSE IF r = <<>> THEN l
    ELSE IF ~Less(Head(l), Head(r))
         THEN <<Head(r)>> \o merge_unstable(l, Tail(r))
         ELSE <<Head(l)>> \o merge_unstable(Tail(l), r)

\* The merge that keeps one element of two that do not compare less.
RECURSIVE merge_union(_, _)
merge_union(l, r) ==
    IF l = <<>> THEN r
    ELSE IF r = <<>> THEN l
    ELSE IF Less(Head(r), Head(l))
         THEN <<Head(r)>> \o merge_union(l, Tail(r))
         ELSE IF Less(Head(l), Head(r))
              THEN <<Head(l)>> \o merge_union(Tail(l), r)
              ELSE <<Head(l)>> \o merge_union(Tail(l), Tail(r))

\* std::list::merge(other, cmp), and std::inplace_merge when the left run is
\* not the longer one: the two-way merge from the front, which takes from
\* the right run only when its head is less than the left's.
RECURSIVE merge(_, _)
merge(l, r) ==
    IF l = <<>> THEN r
    ELSE IF r = <<>> THEN l
    ELSE IF Less(Head(r), Head(l))
         THEN <<Head(r)>> \o merge(l, Tail(r))
         ELSE <<Head(l)>> \o merge(Tail(l), r)

Last(s) == s[Len(s)]

Front(s) == SubSeq(s, 1, Len(s) - 1)

\* The merge from the back that places the left run's last element last
\* on a tie.
RECURSIVE merge_backward_unstable(_, _)
merge_backward_unstable(l, r) ==
    IF l = <<>> THEN r
    ELSE IF r = <<>> THEN l
    ELSE IF ~Less(Last(l), Last(r))
         THEN merge_backward_unstable(Front(l), r) \o <<Last(l)>>
         ELSE merge_backward_unstable(l, Front(r)) \o <<Last(r)>>

\* std::inplace_merge when the left run is the longer one: the two-way
\* merge from the back, which places the left run's last element last only
\* when the right run's last element is less than it.
RECURSIVE merge_backward(_, _)
merge_backward(l, r) ==
    IF l = <<>> THEN r
    ELSE IF r = <<>> THEN l
    ELSE IF Less(Last(r), Last(l))
         THEN merge_backward(Front(l), r) \o <<Last(l)>>
         ELSE merge_backward(l, Front(r)) \o <<Last(r)>>

\* std::inplace_merge(first, middle, last, cmp) on the runs [first, middle)
\* and [middle, last): the shorter run goes to the buffer.
inplace_merge(l, r) ==
    IF Len(l) <= Len(r) THEN merge(l, r) ELSE merge_backward(l, r)

\* Writing the sequence s into d from offset from on.
WriteAt(d, from, s) ==
    [k \in 1..Len(d) |->
        IF k > from /\ k <= from + Len(s) THEN s[k - from] ELSE d[k]]

\* ContiniousDeck::merge_range on the storage d.
merge_range(d, r1, r2) ==
    WriteAt(d, r1[1],
            inplace_merge(SubSeq(d, r1[1] + 1, r1[2]), SubSeq(d, r1[2] + 1, r2[2])))

\* The loop that records the end of the left range for the merged range.
RECURSIVE cont_loop_short(_, _, _, _)
cont_loop_short(i, d, new_points, left_unmerged) ==
    IF i > 0
    THEN cont_loop_short(i - 2,
                         merge_range(d, points[i], points[i + 1]),
                         <<<<points[i][1], points[i][2]>>>> \o new_points,
                         i # 1)
    ELSE [data |-> d, new_points |-> new_points, left_unmerged |-> left_unmerged]

\* The for loop of ContiniousDeck::merge_decks from index i on.
RECURSIVE cont_loop(_, _, _, _)
cont_loop(i, d, new_points, left_unmerged) ==
    IF i > 0
    THEN cont_loop(i - 2,
                   merge_range(d, points[i], points[i + 1]),
                   <<<<points[i][1], points[i + 1][2]>>>> \o new_points,
                   i # 1)
    ELSE [data |-> d, new_points |-> new_points, left_unmerged |-> left_unmerged]

\* The loop that hands both piles of a pair to the next round as they are.
RECURSIVE sparse_loop_unmerged(_, _, _)
sparse_loop_unmerged(i, new_storage, left_unmerged) ==
    IF i > 0
    THEN sparse_loop_unmerged(i - 2,
                              <<storage[i], storage[i + 1]>> \o new_storage,
                              i # 1)
    ELSE [new_storage |-> new_storage, left_unmerged |-> left_unmerged]

\* The for loop of SparceDeck::merge_decks from index i on.
RECURSIVE sparse_loop(_, _, _)
sparse_loop(i, new_storage, left_unmerged) ==
    IF i > 0
    THEN sparse_loop(i - 2,
                     <<merge(storage[i], storage[i + 1])>> \o new_storage,
                     i # 1)
    ELSE [new_storage |-> new_storage, left_unmerged |-> left_unmerged]

\* The write-back that never advances past the first pile's range.
RECURSIVE move_back_stuck(_, _, _, _)
move_back_stuck(k, d, end, pts) ==
    IF k > Len(storage)
    THEN [data |-> d, points |-> pts]
    ELSE LET range_begin == end
             new_end == range_begin + Len(storage[k])
         IN  move_back_stuck(k + 1, WriteAt(d, 0, storage[k]),
                             new_end, Append(pts, <<range_begin, new_end>>))

\* The write-back that records each range one slot too long.
RECURSIVE move_back_past(_, _, _, _)
move_back_past(k, d, end, pts) ==
    IF k > Len(storage)
    THEN [data |-> d, points |-> pts]
    ELSE LET range_begin == end
             new_end == range_begin + Len(storage[k]) + 1
         IN  move_back_past(k + 1, WriteAt(d, range_begin, storage[k]),
                            new_end, Append(pts, <<range_begin, new_end>>))

\* The piles written one after the other, with the range of each.
RECURSIVE move_back_loop(_, _, _, _)
move_back_loop(k, d, end, pts) ==
    IF k > Len(storage)
    THEN [data |-> d, points |-> pts]
    ELSE LET range_begin == end
             new_end == range_begin + Len(storage[k])
         IN  move_back_loop(k + 1, WriteAt(d, range_begin, storage[k]),
                            new_end, Append(pts, <<range_begin, new_end>>))

\* ------------------------------------------------------------------------
\* The calls.

Start(v, c, s) ==
    /\ variant = v
    /\ cmp = c
    /\ orig = s
    /\ data = s
    /\ it = 0
    /\ storage = <<>>
    /\ points = <<>>
    /\ pc = "distribute"
    /\ oob = FALSE
    /\ pass = 1

Init == \E v \in Variants, c \in Orders, s \in Inputs : Start(v, c, Tag(s))

\* Every predicate on the values is tried, so an input is taken up to a
\* renaming of its values: a value is at most one more than those before it.
FirstOccurrenceOrder(s) ==
    \A i \in 1..Len(s) : \A v \in 1..(s[i] - 1) : \E j \in 1..(i - 1) : s[j] = v

InitAny ==
    \E v \in Variants, c \in Predicates :
        \E s \in {t \in SeqsUpTo(AnyLen, 1..AnyVal) : FirstOccurrenceOrder(t)} :
            Start(v, c, Tag(s))

\* Elements the distribution loop has not taken yet.
Remaining == IF variant = "patience_sort" THEN Len(data) ELSE Len(data) - it

\* One iteration of the loop of sort_generic.
sort_generic ==
    /\ pc = "distribute"
    /\ variant \in {"patience_sort_cont", "patience_sort_list"}
    /\ it < Len(data)
    /\ storage' = emplace_back(data[it + 1])
    /\ it' = it + 1
    /\ UNCHANGED <<variant, cmp, orig, data, points, pc, oob, pass>>

\* One iteration of the loop of patience_sort(list): the node leaves the list.
patience_sort ==
    /\ pc = "distribute"
    /\ variant = "patience_sort"
    /\ data # <<>>
    /\ storage' = emplace_back(Head(data))
    /\ data' = Tail(data)
    /\ UNCHANGED <<variant, cmp, orig, it, points, pc, oob, pass>>

\* ContiniousDeck::produce_output, first half.
move_back ==
    /\ pc = "distribute"
    /\ variant = "patience_sort_cont"
    /\ it = Len(data)
    /\ LET r == move_back_loop(1, data, 0, points)
       IN  /\ data' = r.data
           /\ points' = r.points
    /\ pc' = "merge"
    /\ UNCHANGED <<variant, cmp, orig, it, storage, oob, pass>>

\* One call of ContiniousDeck::merge_decks; the recursive call is the next.
merge_decks_cont ==
    /\ pc = "merge"
    /\ variant = "patience_sort_cont"
    /\ IF Len(points) = 1
       THEN /\ pc' = "done"
            /\ UNCHANGED <<data, points, oob>>
       ELSE LET r == cont_loop(Len(points) - 1, data, <<>>, TRUE)
            IN  IF r.left_unmerged /\ Len(points) = 0
                THEN \* points[0] of an empty deque
                     /\ oob' = TRUE
                     /\ pc' = "undefined"
                     /\ UNCHANGED <<data, points>>
                ELSE /\ data' = r.data
                     /\ points' = IF r.left_unmerged
                                  THEN <<points[1]>> \o r.new_points
                                  ELSE r.new_points
                     /\ UNCHANGED <<pc, oob>>
    /\ UNCHANGED <<variant, cmp, orig, it, storage, pass>>

\* One call of SparceDeck::merge_decks; the recursive call is the next.
merge_decks_sparse ==
    /\ variant \in {"patience_sort_list", "patience_sort"}
    /\ \/ pc = "distribute" /\ Remaining = 0
       \/ pc = "merge"
    /\ IF Len(storage) = 1
       THEN /\ pc' = "output"
            /\ UNCHANGED <<storage, oob>>
       ELSE LET r == sparse_loop(Len(storage) - 1, <<>>, TRUE)
            IN  IF r.left_unmerged /\ Len(storage) = 0
                THEN \* storage[0] of an empty deque
                     /\ oob' = TRUE
                     /\ pc' = "undefined"
                     /\ UNCHANGED storage
                ELSE /\ storage' = IF r.left_unmerged
                                   THEN <<storage[1]>> \o r.new_storage
                                   ELSE r.new_storage
                     /\ pc' = "merge"
                     /\ UNCHANGED oob
    /\ UNCHANGED <<variant, cmp, orig, data, it, points, pass>>

\* SparseDeckRandomOut::produce_output after merge_decks.
produce_output ==
    /\ pc = "output"
    /\ variant = "patience_sort_list"
    /\ data' = WriteAt(data, 0, storage[1])
    /\ pc' = "done"
    /\ UNCHANGED <<variant, cmp, orig, it, storage, points, oob, pass>>

\* list = storage[0] by copy: the pile keeps its nodes.
produce_output_list_copy ==
    /\ pc = "output"
    /\ variant = "patience_sort"
    /\ data' = storage[1]
    /\ pc' = "done"
    /\ UNCHANGED <<variant, cmp, orig, it, storage, points, oob, pass>>

\* SparceDeck::produce_output_list after merge_decks: the move assignment
\* hands the nodes of storage[0] to the caller's list.
produce_output_list ==
    /\ pc = "output"
    /\ variant = "patience_sort"
    /\ data' = storage[1]
    /\ storage' = [storage EXCEPT ![1] = <<>>]
    /\ pc' = "done"
    /\ UNCHANGED <<variant, cmp, orig, it, points, oob, pass>>

\* What the build does after the read of a pile or range that does not
\* exist: the call returns with the storage as it is, returns with a
\* garbage element in the storage, or the process dies.
Undefined ==
    /\ pc = "undefined"
    /\ \/ pc' = "done" /\ UNCHANGED data
       \/ pc' = "crashed" /\ UNCHANGED data
       \/ /\ variant # "patience_sort_cont"
          /\ pc' = "done"
          /\ \E v \in 1..MaxVal : data' = <<[val |-> v, id |-> 0]>>
    /\ UNCHANGED <<variant, cmp, orig, it, storage, points, oob, pass>>

\* The caller sorts the result of the first call again.
Resort ==
    /\ pc = "done"
    /\ pass = 1
    /\ ~oob
    /\ orig' = data
    /\ it' = 0
    /\ storage' = <<>>
    /\ points' = <<>>
    /\ pc' = "distribute"
    /\ pass' = 2
    /\ UNCHANGED <<variant, cmp, data, oob>>

\* The steps of one call.
Call ==
    \/ sort_generic
    \/ patience_sort
    \/ move_back
    \/ merge_decks_cont
    \/ merge_decks_sparse
    \/ produce_output
    \/ produce_output_list
    \/ Undefined

Next ==
    \/ Call
    \/ Resort

\* Calls with a strict weak order, and a second call on the result.
Spec == Init /\ [][Next]_vars

\* One call with any binary predicate as comparator.
SpecAny == InitAny /\ [][Call]_vars

\* The call is not suspended: a step that can be taken is taken.
SpecAnyFair == SpecAny /\ WF_vars(Call)

\* Inputs over two values: every number of piles up to the length occurs.
InitFair ==
    \E v \in Variants, c \in Orders, s \in SeqsUpTo(MaxLen, 1..AnyVal) :
        Start(v, c, Tag(s))

\* One call with a strict weak order, not suspended.
SpecFair == InitFair /\ [][Call]_vars /\ WF_vars(Call)

\* ------------------------------------------------------------------------
\* The version with free functions (namespace Patience of
\* src/unnamed/part_003).  Its Installer has the find_deck, get_deck_pointer
\* and allocate_new_deck of src/patience_sort.h, and install_back is the
\* write-back of ContiniousDeck::move_back; the tournament is the function
\* merge over a collection of ranges (kept in points) or of lists (kept in
\* storage).

\* One iteration of the loop of Installer::install(begin, end).
Installer_install ==
    /\ pc = "distribute"
    /\ variant \in {"patience_sort_cont", "patience_sort_list"}
    /\ it < Len(data)
    /\ storage' = emplace_back(data[it + 1])
    /\ it' = it + 1
    /\ UNCHANGED <<variant, cmp, orig, data, points, pc, oob, pass>>

\* One iteration of the loop of Installer::install(list): the splice.
Installer_install_list ==
    /\ pc = "distribute"
    /\ variant = "patience_sort"
    /\ data # <<>>
    /\ storage' = emplace_back(Head(data))
    /\ data' = Tail(data)
    /\ UNCHANGED <<variant, cmp, orig, it, points, pc, oob, pass>>

\* Installer::install_back at the end of install(begin, end) on deques.
Installer_install_back ==
    /\ pc = "distribute"
    /\ variant = "patience_sort_cont"
    /\ it = Len(data)
    /\ LET r == move_back_loop(1, data, 0, points)
       IN  /\ data' = r.data
           /\ points' = r.points
    /\ pc' = "merge"
    /\ UNCHANGED <<variant, cmp, orig, it, storage, oob, pass>>

\* merge_range on two ranges: the storage after the merge in place, and the
\* range that r2 becomes (r2.first = r1.first).
Patience_merge_range(d, r1, r2) ==
    [data |-> WriteAt(d, r1[1],
                      inplace_merge(SubSeq(d, r1[1] + 1, r1[2]),
                                    SubSeq(d, r1[2] + 1, r2[2]))),
     r2   |-> <<r1[1], r2[2]>>]

\* merge_range on two lists: l2.merge(std::move(l1), cmp), the list that l2
\* becomes.  l2 is the list merged into.
Patience_merge_range_list(l1, l2) == merge(l2, l1)

\* The for loop of merge over ranges, from index i down.
RECURSIVE Patience_merge_loop(_, _, _)
Patience_merge_loop(i, d, new_ranges) ==
    IF i >= 0
    THEN IF i # 0
         THEN LET m == Patience_merge_range(d, points[i], points[i + 1])
              IN  Patience_merge_loop(i - 2, m.data, <<m.r2>> \o new_ranges)
         ELSE Patience_merge_loop(i - 2, d, <<points[1]>> \o new_ranges)
    ELSE [data |-> d, new_ranges |-> new_ranges]

\* The for loop of merge over lists, from index i down.
RECURSIVE Patience_merge_loop_list(_, _)
Patience_merge_loop_list(i, new_ranges) ==
    IF i >= 0
    THEN IF i # 0
         THEN Patience_merge_loop_list(
                  i - 2,
                  <<Patience_merge_range_list(storage[i], storage[i + 1])>>
                      \o new_ranges)
         ELSE Patience_merge_loop_list(i - 2, <<storage[1]>> \o new_ranges)
    ELSE new_ranges

\* One call of merge; the recursive call is the next.  With a collection of
\* size 0 the loop does not run (int i = size() - 1 is -1) and the call
\* calls itself with an empty collection again: frame upon frame, until the
\* stack is exhausted.
Patience_merge ==
    /\ \/ pc = "merge"
       \/ pc = "distribute" /\ Remaining = 0 /\ variant # "patience_sort_cont"
    /\ IF variant = "patience_sort_cont"
       THEN IF Len(points) = 1
            THEN /\ pc' = "done"
                 /\ UNCHANGED <<data, points, storage>>
            ELSE LET r == Patience_merge_loop(Len(points) - 1, data, <<>>)
                 IN  /\ data' = r.data
                     /\ points' = r.new_ranges
                     /\ pc' = IF r.new_ranges = <<>> THEN "crashed" ELSE "merge"
                     /\ UNCHANGED storage
       ELSE IF Len(storage) = 1
            THEN /\ pc' = "output"
                 /\ UNCHANGED <<data, points, storage>>
            ELSE LET r == Patience_merge_loop_list(Len(storage) - 1, <<>>)
                 IN  /\ storage' = r
                     /\ pc' = IF r = <<>> THEN "crashed" ELSE "merge"
                     /\ UNCHANGED <<data, points>>
    /\ UNCHANGED <<variant, cmp, orig, it, oob, pass>>

\* sort(begin, end, cmp) on lists after merge: the merged list is moved to
\* the caller's range.  On deques the ranges are the caller's range itself
\* and nothing is left to do.
Patience_sort ==
    /\ pc = "output"
    /\ variant = "patience_sort_list"
    /\ data' = WriteAt(data, 0, storage[1])
    /\ pc' = "done"
    /\ UNCHANGED <<variant, cmp, orig, it, storage, points, oob, pass>>

\* sort(list, cmp) after merge: list = merge(...), the list that merge
\* returned (ranges.front()).
Patience_sort_list ==
    /\ pc = "output"
    /\ variant = "patience_sort"
    /\ data' = storage[1]
    /\ pc' = "done"
    /\ UNCHANGED <<variant, cmp, orig, it, storage, points, oob, pass>>

Patience_Next ==
    \/ Installer_install
    \/ Installer_install_list
    \/ Installer_install_back
    \/ Patience_merge
    \/ Patience_sort
    \/ Patience_sort_list

\* One call of the version with free functions.
SpecFree == Init /\ [][Patience_Next]_vars

\* The call is not suspended.
SpecFreeFair == SpecFree /\ WF_vars(Patience_Next)

\* ------------------------------------------------------------------------
\* The versions of class PatienceSort: find_deck as a scan over the piles
\* (src/unnamed/part_002) and as the binary search (src/unnamed/part_004),
\* both with operator<.  A pile is its offset in decks; the scan's nullptr
\* is NoDeck.

NoDeck == -1

\* The scan that keeps the last pile whose back is less than val.
RECURSIVE linear_find_deck_last(_, _, _)
linear_find_deck_last(val, decks, k) ==
    IF k = Len(decks)
    THEN NoDeck
    ELSE LET rest == linear_find_deck_last(val, decks, k + 1)
         IN  IF rest # NoDeck
             THEN rest
             ELSE IF Back(decks[k + 1]).val < val.val THEN k ELSE NoDeck

\* find_deck(val) of src/unnamed/part_002: the loop over decks from the
\* pile at offset k on.
RECURSIVE linear_find_deck(_, _, _)
linear_find_deck(val, decks, k) ==
    IF k = Len(decks)
    THEN NoDeck
    ELSE IF Back(decks[k + 1]).val < val.val
         THEN k
         ELSE linear_find_deck(val, decks, k + 1)

\* fill_to_deck(val) of src/unnamed/part_002 on the piles decks.
linear_fill_to_deck(decks, val) ==
    LET deck == linear_find_deck(val, decks, 0)
    IN  IF deck = NoDeck
        THEN Append(decks, <<val>>)
        ELSE [decks EXCEPT ![deck + 1] = Append(@, val)]

\* fill_decks() of src/unnamed/part_002 over the elements s.
RECURSIVE linear_fill_decks(_)
linear_fill_decks(s) ==
    IF s = <<>>
    THEN <<>>
    ELSE linear_fill_to_deck(linear_fill_decks(Front(s)), Last(s))

\* find_deck(val, begin, end) of src/unnamed/part_004.
RECURSIVE binary_find_deck(_, _, _, _)
binary_find_deck(val, decks, begin, end) ==
    IF end = begin
    THEN begin
    ELSE IF end = begin + 1
    THEN IF Back(decks[begin + 1]).val < val.val THEN begin ELSE end
    ELSE LET mid == begin + ((end - begin) \div 2)
         IN  IF Back(decks[mid + 1]).val < val.val
             THEN binary_find_deck(val, decks, begin, mid)
             ELSE binary_find_deck(val, decks, mid, end)

\* fill_to_deck(val) of src/unnamed/part_004 on the piles decks.
binary_fill_to_deck(decks, val) ==
    LET res == binary_find_deck(val, decks, 0, Len(decks))
    IN  IF res = Len(decks)
        THEN Append(decks, <<val>>)
        ELSE [decks EXCEPT ![res + 1] = Append(@, val)]

\* fill_decks() of src/unnamed/part_004 over the elements s.
RECURSIVE binary_fill_decks(_)
binary_fill_decks(s) ==
    IF s = <<>>
    THEN <<>>
    ELSE binary_fill_to_deck(binary_fill_decks(Front(s)), Last(s))

\* ------------------------------------------------------------------------
\* Properties.

Returned == pc = "done"

\* Number of positions of s that hold the value v.
CountVal(s, v) == Cardinality({i \in 1..Len(s) : s[i].val = v})

ValuesOf(s) == {s[i].val : i \in 1..Len(s)}

IsPermutation(out, in) ==
    /\ Len(out) = Len(in)
    /\ \A v \in ValuesOf(out) \cup ValuesOf(in) : CountVal(out, v) = CountVal(in, v)

\* std::is_sorted under the natural order.
IsSorted(s) == \A i \in 1..(Len(s) - 1) : ~(s[i + 1].val < s[i].val)

\* C1: under the natural order, when any of the three entry points returns
\* from a call on a non-empty sequence, no adjacent pair of the caller's
\* storage is out of order, and the example of the test comes out as
\* 1 1 2 4 5 5 8 12 15 104.
C1_Sortedness ==
    (Returned /\ cmp.kind = "default" /\ Len(orig) >= 1) =>
        /\ IsSorted(data)
        /\ Vals(orig) = Example => Vals(data) = <<1, 1, 2, 4, 5, 5, 8, 12, 15, 104>>

C1_Witness ==
    /\ Returned
    /\ pass = 1
    /\ cmp.kind = "default"
    /\ variant = "patience_sort_cont"
    /\ Vals(orig) = Example
    /\ Vals(data) = <<1, 1, 2, 4, 5, 5, 8, 12, 15, 104>>

\* C2: when any of the three entry points returns from a call on a non-empty
\* sequence, every value occurs in the caller's storage as many times as it
\* occurred in the input.
C2_Permutation ==
    (Returned /\ Len(orig) >= 1) => IsPermutation(data, orig)

C2_Witness ==
    /\ Returned
    /\ pass = 1
    /\ variant = "patience_sort_cont"
    /\ Vals(orig) = <<2, 1, 2, 1>>
    /\ Vals(data) = <<1, 1, 2, 2>>


\* The distribution loop has taken every element and no merge has started.
Distributed == pc = "distribute" /\ Remaining = 0

\* The last element of every pile, in collection order.
Extrema == [k \in 1..Len(storage) |-> Back(storage[k]).val]

\* C3: a call on an empty range or list completes, leaves the storage
\* empty, and the tournament reads no pile or range that does not exist.
C3_EmptyInput ==
    Len(orig) = 0 =>
        /\ ~oob
        /\ pc \notin {"undefined", "crashed"}
        /\ Returned => data = <<>>

\* C4 as stated: during distribution, under the natural order, the pile
\* extrema read from index 0 upward are non-decreasing.
C4_ExtremaNonDecreasing ==
    (pc = "distribute" /\ cmp.kind = "default") =>
        \A k \in 1..(Len(storage) - 1) : Extrema[k] <= Extrema[k + 1]

\* C4 as amended: during distribution, under the natural order, the pile
\* extrema read from index 0 upward are non-increasing.
C4_ExtremaNonIncreasing ==
    (pc = "distribute" /\ cmp.kind = "default") =>
        \A k \in 1..(Len(storage) - 1) : Extrema[k] >= Extrema[k + 1]

C4_Witness ==
    /\ pc = "distribute"
    /\ cmp.kind = "default"
    /\ Vals(orig) = <<2, 3, 2, 1>>
    /\ Extrema = <<3, 2, 1>>

Max(S) == CHOOSE m \in S : \A x \in S : x <= m

\* Length of the longest subsequence of the values s that is strictly
\* decreasing.
LongestStrictlyDecreasing(s) ==
    LET f[i \in 1..Len(s)] ==
            1 + Max({0} \cup {f[j] : j \in {j \in 1..(i - 1) : s[j] > s[i]}})
    IN  Max({0} \cup {f[i] : i \in 1..Len(s)})

\* Length of the longest subsequence of the values s in which no element
\* is greater than its predecessor.
LongestNonIncreasing(s) ==
    LET f[i \in 1..Len(s)] ==
            1 + Max({0} \cup {f[j] : j \in {j \in 1..(i - 1) : s[j] >= s[i]}})
    IN  Max({0} \cup {f[i] : i \in 1..Len(s)})

StrictlyIncreasing(deck) ==
    \A i \in 1..(Len(deck) - 1) : deck[i].val < deck[i + 1].val

\* C5 as stated: under the natural order the number of piles at the end of
\* the distribution pass is the length of the longest strictly decreasing
\* subsequence of the input.
C5_PileCountStrictlyDecreasing ==
    (Distributed /\ cmp.kind = "default") =>
        Len(storage) = LongestStrictlyDecreasing(Vals(orig))

\* C5 as amended: under the natural order the piles at the end of the
\* distribution pass are strictly increasing runs, and their number is the
\* length of the longest non-increasing subsequence of the input, so no
\* partition of the input into strictly increasing runs has fewer runs.
C5_PileCountMinimal ==
    (Distributed /\ cmp.kind = "default") =>
        /\ Len(storage) = LongestNonIncreasing(Vals(orig))
        /\ \A k \in 1..Len(storage) : StrictlyIncreasing(storage[k])

C5_Witness ==
    /\ Distributed
    /\ cmp.kind = "default"
    /\ Vals(orig) = <<2, 1, 3, 3>>
    /\ Len(storage) = 2
    /\ LongestStrictlyDecreasing(Vals(orig)) = 2

AllEqual(s) == \A i, j \in 1..Len(s) : s[i].val = s[j].val

\* C6 as stated: an input of equal elements ends the distribution pass
\* with a single pile, and the output has the values of the input.
C6_AllEqualSinglePile ==
    (Len(orig) >= 1 /\ AllEqual(orig)) =>
        /\ Distributed => Len(storage) = 1
        /\ Returned => Vals(data) = Vals(orig)

\* C6 as amended: an input of n equal elements ends the distribution pass
\* with n piles of one element each, and the output has the values of the
\* input.
C6_AllEqualOnePileEach ==
    (Len(orig) >= 1 /\ AllEqual(orig)) =>
        /\ Distributed =>
              /\ Len(storage) = Len(orig)
              /\ \A k \in 1..Len(storage) : Len(storage[k]) = 1
        /\ Returned => Vals(data) = Vals(orig)

C6_Witness ==
    /\ Returned
    /\ variant = "patience_sort_cont"
    /\ Vals(orig) = <<2, 2, 2>>
    /\ Len(storage) = 3
    /\ Vals(data) = <<2, 2, 2>>

\* C7: sorting the result of a call on a non-empty sequence again leaves
\* it as it is, element by element, for the three entry points.
C7_Idempotence ==
    (Returned /\ pass = 2 /\ Len(orig) >= 1) => data = orig

C7_Witness ==
    /\ Returned
    /\ pass = 2
    /\ cmp.kind = "bykey"
    /\ variant = "patience_sort"
    /\ Vals(orig) = <<2, 1, 3>>
    /\ data = orig

\* The element the distribution loop takes next.
Current == IF variant = "patience_sort" THEN Head(data) ELSE data[it + 1]

\* The caller's order by key, written out.
KeyLess(a, b) == Key(a.val) < Key(b.val)

\* C8: under the comparator by key, the output is a permutation of the
\* input with no adjacent pair out of order by key, and each distribution
\* step either appends the element to one pile whose extremum has a smaller
\* key, or appends a new pile at the end when no extremum has a smaller key;
\* an element is never added to a pile whose extremum only ties with it.
C8_CustomComparator ==
    /\ [](( Returned /\ cmp.kind = "bykey" /\ Len(orig) >= 1) =>
            /\ IsPermutation(data, orig)
            /\ \A i \in 1..(Len(data) - 1) : ~KeyLess(data[i + 1], data[i]))
    /\ [][(cmp.kind = "bykey" /\ pc = "distribute" /\ Remaining > 0
              /\ storage' # storage) =>
            \/ /\ \A k \in 1..Len(storage) : ~KeyLess(Back(storage[k]), Current)
               /\ storage' = Append(storage, <<Current>>)
            \/ \E k \in 1..Len(storage) :
                  /\ KeyLess(Back(storage[k]), Current)
                  /\ storage' = [storage EXCEPT ![k] = Append(@, Current)]]_vars

C8_Witness ==
    /\ Returned
    /\ pass = 1
    /\ cmp.kind = "bykey"
    /\ variant = "patience_sort_cont"
    /\ Vals(orig) = <<2, 1, 3>>
    /\ Vals(storage[1]) = <<2, 3>>
    /\ Vals(data) = <<2, 1, 3>>

IsOrder ==
    /\ \A a \in 1..AnyVal : <<a, a>> \notin cmp.rel
    /\ \A a, b, c \in 1..AnyVal :
          (<<a, b>> \in cmp.rel /\ <<b, c>> \in cmp.rel) => <<a, c>> \in cmp.rel

\* C9: with any binary predicate as comparator, a call on a non-empty
\* sequence reads no pile or range that does not exist (the pile that
\* find_deck returns is one of the collection or its end, and no pile is
\* empty when its last element is read), returns, and returns a permutation
\* of the input.
C9_AnyPredicateSafe ==
    /\ [](Len(orig) >= 1 =>
            /\ ~oob
            /\ pc \notin {"undefined", "crashed"}
            /\ pc = "distribute" =>
                  \A k \in 1..Len(storage) : Len(storage[k]) >= 1
            /\ (pc = "distribute" /\ Remaining > 0) =>
                  find_deck(Current, 0, Len(storage)) \in 0..Len(storage)
            /\ (pc = "merge" /\ variant = "patience_sort_cont") =>
                  /\ Len(points) >= 1
                  /\ \A k \in 1..Len(points) :
                        /\ 0 <= points[k][1]
                        /\ points[k][1] <= points[k][2]
                        /\ points[k][2] <= Len(data)
            /\ (pc \in {"merge", "output"} /\ variant # "patience_sort_cont") =>
                  Len(storage) >= 1
            /\ Returned => IsPermutation(data, orig))
    /\ (Len(orig) >= 1) ~> Returned

C9_Witness ==
    /\ Returned
    /\ pass = 1
    /\ ~IsOrder
    /\ cmp.rel = {<<1, 1>>, <<1, 2>>, <<2, 1>>}
    /\ Vals(orig) = <<1, 2, 1>>
    /\ IsPermutation(data, orig)

StrictlyDecreasing(s) == \A i \in 1..(Len(s) - 1) : s[i].val > s[i + 1].val

\* C10: under the natural order a strictly decreasing input of length
\* n >= 1 ends the distribution pass with n piles of one element each, and
\* the call returns the elements in ascending order, the input reversed.
C10_StrictlyDecreasing ==
    (cmp.kind = "default" /\ Len(orig) >= 1 /\ StrictlyDecreasing(orig)) =>
        /\ Distributed =>
              /\ Len(storage) = Len(orig)
              /\ \A k \in 1..Len(storage) : Len(storage[k]) = 1
        /\ Returned =>
              data = [i \in 1..Len(orig) |-> orig[Len(orig) + 1 - i]]

C10_Witness ==
    /\ Returned
    /\ cmp.kind = "default"
    /\ variant = "patience_sort_cont"
    /\ Vals(orig) = Descending
    /\ Len(storage) = 5
    /\ Vals(data) = <<1, 2, 3, 4, 5>>

StrictlySorted(s) == \A i \in 1..(Len(s) - 1) : s[i].val < s[i + 1].val

\* C11: under the natural order a strictly increasing input of length
\* n >= 1 ends the distribution pass with exactly one pile; the tournament
\* merges nothing (the contiguous deck enters merge_decks with the single
\* range [begin, end) and the storage already equal to the input, the list
\* decks never start a merge round and reach the output with the one pile
\* equal to the input), and the call returns the input unchanged.
C11_AlreadySorted ==
    (cmp.kind = "default" /\ Len(orig) >= 1 /\ StrictlySorted(orig)) =>
        /\ Distributed => Len(storage) = 1
        /\ pc = "merge" =>
              /\ variant = "patience_sort_cont"
              /\ points = <<<<0, Len(orig)>>>>
              /\ data = orig
        /\ pc = "output" => storage = <<orig>>
        /\ Returned => data = orig

C11_Witness ==
    /\ Returned
    /\ pass = 1
    /\ cmp.kind = "default"
    /\ variant = "patience_sort_cont"
    /\ Vals(orig) = Ascending
    /\ Len(storage) = 1
    /\ points = <<<<0, 5>>>>
    /\ Vals(data) = Ascending

RECURSIVE TotalLen(_)
TotalLen(decks) ==
    IF decks = <<>> THEN 0 ELSE Len(Head(decks)) + TotalLen(Tail(decks))

\* C12: in patience_sort_cont over n >= 1 elements the caller's range keeps
\* its length n; the write-back writes the n elements of the piles and its
\* last range ends exactly at end; every range of points, and so every
\* later merge, lies inside [begin, end).
C12_WritesOnlyRange ==
    (variant = "patience_sort_cont" /\ Len(orig) >= 1) =>
        /\ Len(data) = Len(orig)
        /\ pc \in {"merge", "done"} =>
              /\ TotalLen(storage) = Len(orig)
              /\ points # <<>>
              /\ points[Len(points)][2] = Len(orig)
              /\ \A k \in 1..Len(points) :
                    /\ 0 <= points[k][1]
                    /\ points[k][1] <= points[k][2]
                    /\ points[k][2] <= Len(orig)

C12_Witness ==
    /\ pc = "merge"
    /\ variant = "patience_sort_cont"
    /\ Vals(orig) = <<2, 3, 1, 1>>
    /\ points = <<<<0, 2>>, <<2, 3>>, <<3, 4>>>>
    /\ Len(data) = 4

\* The nodes held by a sequence of piles, pile after pile.
RECURSIVE Flatten(_)
Flatten(decks) ==
    IF decks = <<>> THEN <<>> ELSE Head(decks) \o Flatten(Tail(decks))

NodesOf(s) == {s[i] : i \in 1..Len(s)}

\* C13: in patience_sort(list) on a list of length >= 1 every node of the
\* input, with the payload it had, is at every moment in exactly one place,
\* the caller's list or one pile, and no other node exists; when the call
\* returns the caller's list holds every node of the input exactly once and
\* the piles hold none.
C13_OnlyRelinks ==
    (variant = "patience_sort" /\ Len(orig) >= 1) =>
        /\ NodesOf(data \o Flatten(storage)) = NodesOf(orig)
        /\ Len(data) + TotalLen(storage) = Len(orig)
        /\ Returned =>
              /\ NodesOf(data) = NodesOf(orig)
              /\ Len(data) = Len(orig)

C13_Witness ==
    /\ Returned
    /\ pass = 1
    /\ variant = "patience_sort"
    /\ Vals(orig) = <<2, 1, 2, 1>>
    /\ data = <<orig[2], orig[4], orig[1], orig[3]>>
    /\ storage = <<<<>>>>

\* Values handed to the pile locator: below, among and above the inputs'.
Probes == {[val |-> x, id |-> 0] : x \in 0..(MaxVal + 1)}

\* The pile at index k (from 1) qualifies for v.
Qualifies(k, v) == Less(Back(storage[k]), v)

Qualifying(v) == {k \in 1..Len(storage) : Qualifies(k, v)}

Min(S) == CHOOSE m \in S : \A x \in S : m <= x

\* C14 as stated: for every pile collection of the distribution pass and
\* every value for which a pile qualifies, find_deck returns the qualifying
\* pile of the highest index.
C14_RightmostQualifying ==
    pc = "distribute" =>
        \A v \in Probes :
            Qualifying(v) # {} =>
                find_deck(v, 0, Len(storage)) + 1 = Max(Qualifying(v))

\* C14 as amended: for every pile collection of the distribution pass and
\* every value for which a pile qualifies, find_deck returns the qualifying
\* pile of the lowest index.
C14_LeftmostQualifying ==
    pc = "distribute" =>
        \A v \in Probes :
            Qualifying(v) # {} =>
                find_deck(v, 0, Len(storage)) + 1 = Min(Qualifying(v))

C14_Witness ==
    /\ pc = "distribute"
    /\ cmp.kind = "default"
    /\ Extrema = <<2, 1>>
    /\ Qualifying([val |-> 3, id |-> 0]) = {1, 2}
    /\ find_deck([val |-> 3, id |-> 0], 0, 2) = 0

\* C15: for every pile collection of the distribution pass and every value
\* for which a pile qualifies, the pile find_deck returns qualifies and no
\* qualifying pile has an extremum greater than its extremum.
C15_GreedyChoice ==
    pc = "distribute" =>
        \A v \in Probes :
            Qualifying(v) # {} =>
                LET chosen == find_deck(v, 0, Len(storage)) + 1
                IN  /\ chosen \in Qualifying(v)
                    /\ \A q \in Qualifying(v) :
                          ~Less(Back(storage[chosen]), Back(storage[q]))

C15_Witness ==
    /\ pc = "distribute"
    /\ cmp.kind = "default"
    /\ Vals(orig) = <<3, 2, 1, 3>>
    /\ Extrema = <<3, 2, 1>>
    /\ Remaining = 1
    /\ Qualifying(Current) = {2, 3}
    /\ find_deck(Current, 0, 3) = 1

\* C16: in every state of the distribution pass no pile's extremum compares
\* less than the extremum of the next pile, and for any value the piles
\* that qualify are a suffix of the collection.
C16_QualifyingSuffix ==
    pc = "distribute" =>
        /\ \A k \in 1..(Len(storage) - 1) :
              ~Less(Back(storage[k]), Back(storage[k + 1]))
        /\ \A v \in Probes : \A k \in Qualifying(v) :
              \A j \in k..Len(storage) : j \in Qualifying(v)

C16_Witness ==
    /\ pc = "distribute"
    /\ cmp.kind = "bykey"
    /\ Extrema = <<3, 2, 1>>
    /\ Qualifying([val |-> 3, id |-> 0]) = {2, 3}

\* C17: for every pile collection of the distribution pass and every value,
\* get_deck_pointer allocates a pile exactly when no pile qualifies (also
\* when there is no pile); the new pile is the last of the collection and
\* the piles before it are the old ones in their places; otherwise the
\* collection is left as it is and an existing pile is returned.
C17_NewPileRule ==
    pc = "distribute" =>
        \A v \in Probes :
            LET p == get_deck_pointer(v)
            IN  IF Qualifying(v) = {}
                THEN /\ p.decks = Append(storage, <<>>)
                     /\ p.at = Len(storage)
                ELSE /\ p.decks = storage
                     /\ p.at < Len(storage)

C17_Witness ==
    /\ pc = "distribute"
    /\ cmp.kind = "default"
    /\ Extrema = <<2, 2, 1>>
    /\ get_deck_pointer([val |-> 1, id |-> 0]).at = 3
    /\ get_deck_pointer([val |-> 2, id |-> 0]).at = 2

Equivalent(a, b) == ~Less(a, b) /\ ~Less(b, a)

\* C18: a distribution step changes a pile only if that pile's extremum is
\* less than the element and not equivalent to it; when no extremum is
\* less than the element the step appends a new pile holding the element,
\* and otherwise it creates no pile.
C18_TieRouting ==
    [][(pc = "distribute" /\ Remaining > 0 /\ storage' # storage) =>
        /\ \A k \in 1..Len(storage) :
              storage'[k] # storage[k] =>
                  /\ Less(Back(storage[k]), Current)
                  /\ ~Equivalent(Back(storage[k]), Current)
                  /\ storage'[k] = Append(storage[k], Current)
        /\ IF \A k \in 1..Len(storage) : ~Less(Back(storage[k]), Current)
           THEN storage' = Append(storage, <<Current>>)
           ELSE Len(storage') = Len(storage)]_vars

C18_Witness ==
    /\ Distributed
    /\ cmp.kind = "default"
    /\ Vals(orig) = <<1, 2, 2>>
    /\ Vals(storage[1]) = <<1, 2>>
    /\ Vals(storage[2]) = <<2>>

\* C19: in every state of the distribution pass, no element of a pile
\* compares less than the element appended just before it.
C19_PileOrder ==
    pc = "distribute" =>
        \A k \in 1..Len(storage) : \A i \in 1..(Len(storage[k]) - 1) :
            ~Less(storage[k][i + 1], storage[k][i])

C19_Witness ==
    /\ pc = "distribute"
    /\ cmp.kind = "greater"
    /\ Len(storage) = 1
    /\ Vals(storage[1]) = <<3, 2, 1>>

\* A round over the runs old (k >= 2 of them) leaves the runs new: pairs
\* taken from the end, the run at index 0 kept alone when k is odd.
\* Joined(a, b, c) says that c is what the pair a, b became.
PairedFromEnd(old, new, Joined(_, _, _)) ==
    LET k == Len(old)
        o == k % 2
    IN  /\ Len(new) = (k + 1) \div 2
        /\ o = 1 => new[1] = old[1]
        /\ \A j \in 1..(k \div 2) :
              Joined(old[2 * j - 1 + o], old[2 * j + o], new[j + o])

\* Two adjacent ranges became the range from the first's begin to the
\* second's end.
JoinedRange(r1, r2, r) == r = <<r1[1], r2[2]>>

\* Two lists became one list with the nodes of both.
JoinedList(l1, l2, l) ==
    /\ Len(l) = Len(l1) + Len(l2)
    /\ NodesOf(l) = NodesOf(l1) \cup NodesOf(l2)

\* C20: a round of merge_decks over k >= 2 piles or ranges merges the
\* pairs (k-2, k-1), (k-4, k-3), ... and nothing else; with k odd the one
\* at index 0 passes unmerged, with k even none does; the next round has
\* ceil(k / 2) of them in the same order.
C20_TournamentPairing ==
    [][/\ (variant = "patience_sort_cont" /\ pc = "merge" /\ Len(points) >= 2) =>
             /\ PairedFromEnd(points, points', JoinedRange)
             /\ \A j \in 1..Len(points') :
                   NodesOf(SubSeq(data', points'[j][1] + 1, points'[j][2]))
                       = NodesOf(SubSeq(data, points'[j][1] + 1, points'[j][2]))
             /\ Len(points) % 2 = 1 =>
                   SubSeq(data', 1, points[1][2]) = SubSeq(data, 1, points[1][2])
       /\ (variant # "patience_sort_cont" /\ Len(storage) >= 2
              /\ (Distributed \/ pc = "merge")) =>
             PairedFromEnd(storage, storage', JoinedList)]_vars

C20_Witness ==
    /\ pc = "merge"
    /\ variant = "patience_sort_cont"
    /\ Vals(orig) = Descending
    /\ points = <<<<0, 1>>, <<1, 3>>, <<3, 5>>>>
    /\ Vals(data) = <<5, 3, 4, 1, 2>>

\* No element of s compares less than the element before it.
SortedBy(s) == \A i \in 1..(Len(s) - 1) : ~Less(s[i + 1], s[i])

\* C21: a call on n >= 1 elements, so with k >= 1 piles, that has reached
\* merge_decks leaves it; when the list decks leave it exactly one pile
\* remains, and when the contiguous deck leaves it exactly one range
\* remains, [begin, end); the pile or range holds the n elements of the
\* input with no adjacent pair out of order.
C21_TournamentTerminates ==
    /\ [](Len(orig) >= 1 =>
            /\ pc = "output" =>
                  /\ Len(storage) = 1
                  /\ Len(storage[1]) = Len(orig)
                  /\ NodesOf(storage[1]) = NodesOf(orig)
                  /\ SortedBy(storage[1])
            /\ (Returned /\ variant = "patience_sort_cont") =>
                  /\ points = <<<<0, Len(orig)>>>>
                  /\ Len(data) = Len(orig)
                  /\ NodesOf(data) = NodesOf(orig)
                  /\ SortedBy(data))
    /\ (Len(orig) >= 1 /\ (Distributed \/ pc = "merge"))
           ~> (pc \in {"output", "done"})

C21_Witness ==
    /\ pc = "output"
    /\ variant = "patience_sort_list"
    /\ cmp.kind = "default"
    /\ Vals(orig) = <<2, 1, 1, 2>>
    /\ Len(storage) = 1
    /\ Vals(storage[1]) = <<1, 1, 2, 2>>

\* Position of the element e in s.
Pos(s, e) == CHOOSE i \in 1..Len(s) : s[i] = e

\* The run m holds the elements of the runs l and r, and every element of
\* l comes before the elements of r that are equivalent to it.
LeftBeforeRight(l, r, m) ==
    /\ Len(m) = Len(l) + Len(r)
    /\ NodesOf(m) = NodesOf(l) \cup NodesOf(r)
    /\ \A a \in NodesOf(l), b \in NodesOf(r) :
          Equivalent(a, b) => Pos(m, a) < Pos(m, b)

\* Indices (from 1) of the left run of each pair that a round over k runs
\* merges.
MergedPairs(k) == {i \in 1..(k - 1) : (k - 1 - i) % 2 = 0}

\* C22: in every round of merge_decks, each merge of two adjacent ranges
\* (std::inplace_merge) and each merge of two lists
\* (storage[i - 1].merge(storage[i])) leaves a run in which the elements of
\* the left run come before the equivalent elements of the right run.
C22_StableMerge ==
    [][/\ (variant = "patience_sort_cont" /\ pc = "merge" /\ Len(points) >= 2) =>
             \A i \in MergedPairs(Len(points)) :
                 LeftBeforeRight(
                     SubSeq(data, points[i][1] + 1, points[i][2]),
                     SubSeq(data, points[i + 1][1] + 1, points[i + 1][2]),
                     SubSeq(data', points[i][1] + 1, points[i + 1][2]))
       /\ (variant # "patience_sort_cont" /\ Len(storage) >= 2
              /\ (Distributed \/ pc = "merge")) =>
             \A i \in MergedPairs(Len(storage)) :
                 LeftBeforeRight(
                     storage[i], storage[i + 1],
                     storage'[(i + 1 + (Len(storage) % 2)) \div 2])]_vars

C22_Witness ==
    /\ pc = "output"
    /\ variant = "patience_sort_list"
    /\ cmp.kind = "default"
    /\ Vals(orig) = <<1, 2, 1>>
    /\ storage = <<<<orig[1], orig[3], orig[2]>>>>

\* Indices (from 1) of the ranges that a round of merge over k ranges hands
\* to merge_range as its second argument.
RangesOfRound(k) == {i \in 2..k : (k - i) % 2 = 0}

\* C23: in every round of Patience::merge of the version with free
\* functions, each merge_range(ranges[i - 1], ranges[i]) leaves a run in
\* which the elements of ranges[i - 1] come before the equivalent elements
\* of ranges[i], for the overload on lists and for the overload on pairs of
\* iterators.
C23_FreeMergeStable ==
    [][/\ (variant # "patience_sort_cont" /\ Len(storage) >= 2
              /\ (Distributed \/ pc = "merge")) =>
             \A i \in RangesOfRound(Len(storage)) :
                 LeftBeforeRight(
                     storage[i - 1], storage[i],
                     storage'[(i + (Len(storage) % 2)) \div 2])
       /\ (variant = "patience_sort_cont" /\ pc = "merge" /\ Len(points) >= 2) =>
             \A i \in RangesOfRound(Len(points)) :
                 LeftBeforeRight(
                     SubSeq(data, points[i - 1][1] + 1, points[i - 1][2]),
                     SubSeq(data, points[i][1] + 1, points[i][2]),
                     SubSeq(data', points[i - 1][1] + 1, points[i][2]))]_vars

\* C24: when a call on a sequence of length >= 1 with a strict weak order
\* returns, the storage holds the elements of the input and elements that
\* are equivalent under the comparator are in the order they had in the
\* input; during distribution, of two equivalent elements the later one of
\* the input is in a pile of higher index.
C24_WholeSortStable ==
    Len(orig) >= 1 =>
        /\ Returned =>
              /\ Len(data) = Len(orig)
              /\ NodesOf(data) = NodesOf(orig)
              /\ \A i, j \in 1..Len(data) :
                    (i < j /\ Equivalent(data[i], data[j])) =>
                        Pos(orig, data[i]) < Pos(orig, data[j])
        /\ pc = "distribute" =>
              \A k, l \in 1..Len(storage) :
                  \A a \in NodesOf(storage[k]), b \in NodesOf(storage[l]) :
                      (Equivalent(a, b) /\ Pos(orig, a) < Pos(orig, b)) => k < l

C24_Witness ==
    /\ Returned
    /\ pass = 1
    /\ cmp.kind = "bykey"
    /\ variant = "patience_sort_cont"
    /\ Vals(orig) = <<3, 2, 3, 1>>
    /\ Vals(data) = <<2, 1, 3, 3>>
    /\ data = <<orig[2], orig[4], orig[1], orig[3]>>

\* C25: in patience_sort_cont over n >= 1 elements, from the write-back on
\* the ranges of points tile [begin, end) in order (the first begins at
\* begin, each ends where the next begins, the last ends at end), every
\* range is sorted, and before the first round the range of each pile holds
\* that pile's elements in their order; so the two ranges of every merge
\* are adjacent sorted spans.
C25_ContiguousTiling ==
    (variant = "patience_sort_cont" /\ pc = "merge" /\ Len(orig) >= 1) =>
        /\ points # <<>>
        /\ points[1][1] = 0
        /\ points[Len(points)][2] = Len(data)
        /\ \A j \in 1..(Len(points) - 1) : points[j][2] = points[j + 1][1]
        /\ \A j \in 1..Len(points) :
              /\ points[j][1] <= points[j][2]
              /\ SortedBy(SubSeq(data, points[j][1] + 1, points[j][2]))
        /\ Len(points) = Len(storage) =>
              \A k \in 1..Len(storage) :
                  SubSeq(data, points[k][1] + 1, points[k][2]) = storage[k]
        /\ Len(points) >= 2 =>
              \A i \in MergedPairs(Len(points)) : points[i][2] = points[i + 1][1]

C25_Witness ==
    /\ pc = "merge"
    /\ variant = "patience_sort_cont"
    /\ cmp.kind = "default"
    /\ Vals(orig) = <<2, 3, 1, 1>>
    /\ points = <<<<0, 2>>, <<2, 4>>>>
    /\ Vals(data) = <<2, 3, 1, 1>>

\* C26: a call of the version with free functions that has finished
\* install, on whatever input, the empty one too, comes to the end of
\* merge and returns; a call on an empty range or list returns with the
\* storage empty.
C26_FreeTournamentTerminates ==
    /\ []((Returned /\ Len(orig) = 0) => data = <<>>)
    /\ (Distributed \/ pc = "merge") ~> Returned

\* The sets of positions of the values s at which no value is greater than
\* a value before it: the non-increasing subsequences of s.
NonIncreasingSubsequences(s) ==
    {I \in SUBSET (1..Len(s)) : \A i, j \in I : i < j => s[i] >= s[j]}

\* C27: under the natural order the number of piles at the end of the
\* distribution pass is the greatest length of a subsequence of the input
\* in which no element is greater than its predecessor.
C27_ActualPileCount ==
    (Distributed /\ cmp.kind = "default") =>
        /\ \E I \in NonIncreasingSubsequences(Vals(orig)) :
              Cardinality(I) = Len(storage)
        /\ \A I \in NonIncreasingSubsequences(Vals(orig)) :
              Cardinality(I) <= Len(storage)

C27_Witness ==
    /\ Distributed
    /\ cmp.kind = "default"
    /\ Vals(orig) = <<3, 3, 2, 3>>
    /\ Len(storage) = 3
    /\ {1, 2, 4} \in NonIncreasingSubsequences(Vals(orig))

\* C28: a step of the distribution pass takes the next element of the
\* input, left to right, and appends it at the end of one pile, an old one
\* or a new last one; every other pile, and the elements the pile held,
\* stay as and where they are; the distribution goes on.
C28_AppendOnly ==
    [][(pc = "distribute" /\ Remaining > 0) =>
        /\ Current = orig[Len(orig) - Remaining + 1]
        /\ \E k \in 1..(Len(storage) + 1) :
              /\ Len(storage') = IF k > Len(storage) THEN k ELSE Len(storage)
              /\ storage'[k] =
                     Append(IF k > Len(storage) THEN <<>> ELSE storage[k], Current)
              /\ \A j \in 1..Len(storage) : j # k => storage'[j] = storage[j]
        /\ IF variant = "patience_sort"
           THEN data' = Tail(data) /\ it' = it
           ELSE data' = data /\ it' = it + 1
        /\ Remaining' = Remaining - 1
        /\ pc' = "distribute"]_vars

C28_Witness ==
    /\ Distributed
    /\ variant = "patience_sort_list"
    /\ cmp.kind = "default"
    /\ it = 4
    /\ Vals(orig) = <<1, 3, 2, 3>>
    /\ storage = <<<<orig[1], orig[2]>>, <<orig[3], orig[4]>>>>

\* C29: in every state of the distribution pass every pile holds at least
\* one element, so that the back() of every pile find_deck reads exists;
\* the piles hold the elements taken so far and are no more than these.
C29_NoEmptyPile ==
    pc = "distribute" =>
        /\ \A k \in 1..Len(storage) : storage[k] # <<>>
        /\ TotalLen(storage) = Len(orig) - Remaining
        /\ Len(storage) <= Len(orig) - Remaining

C29_Witness ==
    /\ pc = "distribute"
    /\ cmp.kind = "default"
    /\ Vals(orig) = <<2, 2, 3>>
    /\ Remaining = 1
    /\ storage = <<<<orig[1]>>, <<orig[2]>>>>

\* C30: under the natural order, the piles of every state of the
\* distribution pass are the piles that the version with the binary search
\* and the version with the scan both build from the elements taken so
\* far, and for every value the binary search returns the pile the scan
\* returns, or the end of the piles when the scan returns no pile.
C30_BinaryRefinesLinear ==
    (pc = "distribute" /\ cmp.kind = "default") =>
        LET taken == SubSeq(orig, 1, Len(orig) - Remaining)
        IN  /\ binary_fill_decks(taken) = storage
            /\ linear_fill_decks(taken) = binary_fill_decks(taken)
            /\ \A v \in Probes :
                  LET res == binary_find_deck(v, storage, 0, Len(storage))
                      deck == linear_find_deck(v, storage, 0)
                  IN  IF deck = NoDeck
                      THEN res = Len(storage)
                      ELSE res = deck

C30_Witness ==
    /\ pc = "distribute"
    /\ cmp.kind = "default"
    /\ Extrema = <<3, 2, 1>>
    /\ linear_find_deck([val |-> 3, id |-> 0], storage, 0) = 1
    /\ binary_find_deck([val |-> 3, id |-> 0], storage, 0, 3) = 1
    /\ linear_find_deck([val |-> 1, id |-> 0], storage, 0) = NoDeck
    /\ binary_find_deck([val |-> 1, id |-> 0], storage, 0, 3) = 3

====
